---- MODULE Spec2Model ----
(***************************************************************************)
(* The useMintStats hook of src/src/components/useMintStats.tsx: the       *)
(* cache seed of the useState initializer, the effect that starts a fetch  *)
(* at once and on every interval tick, and fetchMintStats itself with its  *)
(* subgraph / nested / ENS_CLIENT / indexer awaits, the cache write and    *)
(* the two setStats exits.                                                 *)
(*                                                                         *)
(* A subname is written as the number of its creation (1 is the oldest     *)
(* subname of the parent, 2 the next, ...); an item of a source's page is  *)
(* a record with a name field, as in the responses the code reads.         *)
(***************************************************************************)
EXTENDS Integers, Sequences, FiniteSets, TLC

\* ------------------------------------------------------------------ bounds
\* the longest page within the limit that a source returns
MaxShort == 1
\* the positive count a source reports
SampleCount == 3
\* fetchMintStats calls in a behaviour
MaxStarts == 2
\* the latest instant of a behaviour
MaxNow == 3660000

Counts == {0, SampleCount}

\* ------------------------------------------------------- program constants
limit == 100
TTL == 3600000
Interval == 30000

NULL == "null"
ErrMsg == "Failed to fetch mint statistics"

\* a name that is null (the subgraph's name field is nullable)
NoName == 0

Min(a, b) == IF a < b THEN a ELSE b

Item(n) == [name |-> n]

\* the k subnames a source knows, newest first (orderBy createdAt desc)
Page(k) == [i \in 1..k |-> Item(k + 1 - i)]

\* a page longer than the limit the request asked for
LongPage == Page(limit + 1)

\* pages of the indexer and of ENS_CLIENT: every item has a name
Pages == {Page(k) : k \in 0..MaxShort} \cup {LongPage}

\* lists of the subgraph: the name of an item may be null
RawLists == Pages \cup {[Page(k) EXCEPT ![1] = Item(NoName)] : k \in 1..MaxShort}

\* ------------------------------------------------------- array operations
\* .slice(0, n)
Slice(s, n) == SubSeq(s, 1, Min(Len(s), n))

\* .map(sub => sub.name)
MapName(s) == [i \in DOMAIN s |-> s[i].name]

\* .filter(sub => sub.name)
FilterNamed(s) == SelectSeq(s, LAMBDA it : it.name # NoName)

\* ------------------------------------------------------------ JSON, cache
Absent == [present |-> FALSE]

\* the stored text of an entry: numbers and null are written as they are
JSONStringify(entry) ==
    [present |-> TRUE,
     totalMinted |-> entry.totalMinted,
     recentMints |-> [i \in DOMAIN entry.recentMints |-> entry.recentMints[i]],
     timestamp |-> entry.timestamp]

\* a stored text that is no JSON at all, and the text null: JSON.parse throws
\* on the first, reading parsed.timestamp throws on the second
Unparsable == [present |-> TRUE, text |-> "{"]

JSONNull == [present |-> TRUE, text |-> "null"]

LoadThrows(text) == "text" \in DOMAIN text

\* JSON.parse of the text of an object: the fields the text has (a field it
\* does not have reads as undefined)
JSONParse(text) == [f \in DOMAIN text \ {"present"} |-> text[f]]

EmptyStats == [totalMinted |-> 0, recentMints |-> <<>>, isLoading |-> TRUE, error |-> NULL]

\* a freshness test that still takes an entry of exactly one hour
IsFreshInclusive(parsed, t) ==
    "timestamp" \in DOMAIN parsed /\ t - parsed.timestamp <= TTL

\* the 1 hour test of the initializer; with timestamp undefined the difference
\* is NaN and the test is false
IsFresh(parsed, t) ==
    "timestamp" \in DOMAIN parsed /\ t - parsed.timestamp < TTL

\* the snapshot the initializer returns for a fresh entry: totalMinted and
\* recentMints as parsed (undefined, here no field, when the entry has none)
Seeded(parsed) ==
    [f \in ({"totalMinted", "recentMints"} \cap DOMAIN parsed) \cup {"isLoading", "error"} |->
        CASE f = "isLoading" -> FALSE
          [] f = "error" -> NULL
          [] OTHER -> parsed[f]]

\* the useState initializer
InitialStats(name, stored, t) ==
    IF /\ name # ""
       /\ stored.present
       /\ ~LoadThrows(stored)
       /\ IsFresh(JSONParse(stored), t)
    THEN Seeded(JSONParse(stored))
    ELSE EmptyStats

\* ------------------------------------------------------------ the sources
FailResp == [ok |-> FALSE]

\* response.data?.data of the first subgraph query; subdomainCount 0 also
\* stands for an absent count, isArray FALSE for a domains that is no array
GraphResponses ==
    {FailResp}
    \cup {[ok |-> TRUE, hasData |-> FALSE, subdomainCount |-> 0, isArray |-> FALSE, domains |-> <<>>]}
    \cup {[ok |-> TRUE, hasData |-> TRUE, subdomainCount |-> n, isArray |-> TRUE, domains |-> l] :
             n \in Counts, l \in RawLists}
    \cup {[ok |-> TRUE, hasData |-> TRUE, subdomainCount |-> n, isArray |-> FALSE, domains |-> <<>>] :
             n \in Counts}

\* nestedResponse.data?.data?.domain?.subdomains
NestedResponses ==
    {FailResp}
    \cup {[ok |-> TRUE, isArray |-> FALSE, subdomains |-> <<>>]}
    \cup {[ok |-> TRUE, isArray |-> TRUE, subdomains |-> l] : l \in RawLists}

\* ENS_CLIENT.getSubnames: rejects, or resolves to nothing, or to a page
EnsResponses ==
    {FailResp}
    \cup {[ok |-> TRUE, isNull |-> TRUE, subnames |-> <<>>]}
    \cup {[ok |-> TRUE, isNull |-> FALSE, subnames |-> p] : p \in Pages}

\* the indexer: the request fails, or the body is null (reading a field of it
\* throws), or it is an object; totalItems 0 also stands for an absent count
IndexerResponses ==
    {FailResp}
    \cup {[ok |-> TRUE, isNull |-> TRUE, totalItems |-> 0, hasItems |-> FALSE, items |-> <<>>]}
    \cup {[ok |-> TRUE, isNull |-> FALSE, totalItems |-> n, hasItems |-> FALSE, items |-> <<>>] :
             n \in Counts}
    \cup {[ok |-> TRUE, isNull |-> FALSE, totalItems |-> n, hasItems |-> TRUE, items |-> p] :
             n \in Counts, p \in Pages}

VARIABLES
    listingChainId,   \* 0 when not configured
    listedName,       \* "" when not configured
    listingType,
    now,              \* Date.now()
    cache,            \* localStorage item mintStats-<listedName>
    phase,            \* of the hook: "rendered", "active", "unmounted"
    stats,            \* the snapshot of the hook instance
    closure,          \* the stats the effect's fetchMintStats has captured
    inflight,         \* the fetchMintStats calls suspended at an await
    starts,           \* fetchMintStats calls so far
    source,           \* the answers of the sources, when they are fixed
    event             \* what the last step completed, if it completed a call

vars == <<listingChainId, listedName, listingType, now, cache, phase,
          stats, closure, inflight, starts, source, event>>

config == <<listingChainId, listedName, listingType>>

\* the report of a step: "init" after the useState initializer, "next" when a
\* response made the call go on to another request, "done" when it ended the
\* call, "none" otherwise
NoEvent == [kind |-> "none"]

InitEvent(stored) == [kind |-> "init", cacheBefore |-> stored]

Last(s) == s[Len(s)]

RemoveAt(s, i) == [j \in 1..(Len(s) - 1) |-> IF j < i THEN s[j] ELSE s[j + 1]]

\* an axios request is pending: it ends within its 5 s timeout, before the
\* next interval tick
AxiosPending == \E i \in DOMAIN inflight : Last(inflight[i].calls) # "ens"

Data(s) == [totalMinted |-> s.totalMinted, recentMints |-> s.recentMints]

\* setState reaches the snapshot only while the instance that made the call
\* is mounted
Live(c) == ~c.orphan

\* sources whose data may change from one request to the next
AnySource == [fixed |-> FALSE]

\* sources whose data does not change: every request of a kind gets the same
\* answer (a listing of one type never asks the sources of the other)
FixedSources(type) ==
    IF type = "L1"
    THEN [fixed : {TRUE}, graph : GraphResponses, nested : NestedResponses,
          ens : EnsResponses, indexer : {FailResp}]
    ELSE [fixed : {TRUE}, graph : {FailResp}, nested : {FailResp},
          ens : {FailResp}, indexer : IndexerResponses]

\* r is an answer the source gives to a request of this kind
Answers(kind, r) == source.fixed => r = source[kind]

Init ==
    /\ source = AnySource
    /\ listingChainId \in {0, 1}
    /\ listingType \in {"L1", "L2"}
    /\ listedName \in {"", "alice.eth"}
    /\ now = 0
    /\ cache = Absent
    /\ phase = "rendered"
    /\ stats = InitialStats(listedName, Absent, 0)
    /\ closure = stats
    /\ inflight = <<>>
    /\ starts = 0
    /\ event = InitEvent(Absent)

\* ----------------------------------------------- fetchMintStats, its start
Configured == listingChainId # 0 /\ listedName # ""

\* the loading guard reads the stats the closure has captured
ShowsLoading == closure.totalMinted = 0

\* a loading set without the guard
LoadingSetUnguarded(s) == [s EXCEPT !.isLoading = TRUE, !.error = NULL]

LoadingSet(s) ==
    IF ShowsLoading THEN [s EXCEPT !.isLoading = TRUE, !.error = NULL] ELSE s

\* the first await a call reaches (listedName is a registered name, which
\* namehash(normalize(listedName)) accepts)
\* a dispatch that asks the subgraph whatever the listing type
FirstCallAnyType == "graph"

FirstCall == IF listingType = "L1" THEN "graph" ELSE "indexer"

NewCycle ==
    [orphan |-> FALSE, calls |-> <<FirstCall>>, totalMinted |-> 0,
     recentMints |-> <<>>, seen |-> Data(stats), shown |-> stats]

StartFetch ==
    /\ starts' = starts + 1
    /\ IF Configured
       THEN /\ stats' = LoadingSet(stats)
            /\ inflight' = Append(inflight, NewCycle)
       ELSE UNCHANGED <<stats, inflight>>

\* ------------------------------------------------ what a response is read as
\* a count taken from the length of the list
GraphCountFromList(r, prev) ==
    IF r.hasData /\ r.isArray THEN Len(r.domains) ELSE prev

GraphCount(r, prev) ==
    IF r.hasData /\ r.subdomainCount # 0 THEN r.subdomainCount ELSE prev

GraphNames(r, prev) ==
    IF r.hasData /\ r.isArray THEN MapName(FilterNamed(r.domains)) ELSE prev

\* a corrective query for every empty list, whatever the count
NeedsNestedAnyCount(tm, rm) == Len(rm) = 0

NeedsNested(tm, rm) == tm > 0 /\ Len(rm) = 0

NestedNames(r, prev) ==
    IF r.isArray THEN MapName(r.subdomains) ELSE prev

FallbackUsed(r) == ~r.isNull /\ Len(r.subnames) > 0

FallbackNames(r, prev) ==
    IF FallbackUsed(r) THEN MapName(Slice(r.subnames, limit)) ELSE prev

FallbackCount(r, prev) ==
    IF FallbackUsed(r) THEN Len(r.subnames) ELSE prev

IndexerCount(r) == r.totalItems

IndexerNames(r) ==
    IF r.hasItems THEN MapName(Slice(r.items, limit)) ELSE <<>>

\* --------------------------------------------- fetchMintStats, its two exits
WritesCache(tm) == tm > 0

\* a cache write that stores the number of names as the count
CacheAfterCountsNames(tm, rm) ==
    IF WritesCache(tm)
    THEN JSONStringify([totalMinted |-> Len(rm), recentMints |-> rm, timestamp |-> now])
    ELSE cache

CacheAfter(tm, rm) ==
    IF WritesCache(tm)
    THEN JSONStringify([totalMinted |-> tm, recentMints |-> rm, timestamp |-> now])
    ELSE cache

\* a setStats that adds the names to those the snapshot shows
StatsOnSuccessMerges(tm, rm) ==
    [totalMinted |-> tm, recentMints |-> stats.recentMints \o rm,
     isLoading |-> FALSE, error |-> NULL]

StatsOnSuccess(tm, rm) ==
    [totalMinted |-> tm, recentMints |-> rm, isLoading |-> FALSE, error |-> NULL]

\* a failure handler that does not spread the previous snapshot
StatsOnFailureWipes(prev) ==
    [totalMinted |-> 0, recentMints |-> <<>>, isLoading |-> FALSE, error |-> ErrMsg]

\* a failure handler that leaves isLoading as it is
StatsOnFailureStillLoading(prev) == [prev EXCEPT !.error = ErrMsg]

StatsOnFailure(prev) ==
    [prev EXCEPT !.isLoading = FALSE, !.error = ErrMsg]

Report(k, i, c, r, h) ==
    [kind |-> k, from |-> Last(inflight[i].calls), resp |-> r, cycle |-> c,
     handler |-> h, live |-> Live(c), statsBefore |-> stats, cacheBefore |-> cache]

\* the save to cache and the setStats that follow the awaits
Succeed(i, tm, rm, r) ==
    /\ cache' = CacheAfter(tm, rm)
    /\ stats' = IF Live(inflight[i]) THEN StatsOnSuccess(tm, rm) ELSE stats
    /\ inflight' = RemoveAt(inflight, i)
    /\ event' = Report("done", i, [inflight[i] EXCEPT !.totalMinted = tm, !.recentMints = rm], r, "set")

\* an outer catch that calls fetchMintStats again at once
CaughtRetries(i, r) ==
    /\ cache' = cache
    /\ stats' = IF Live(inflight[i]) THEN StatsOnFailure(stats) ELSE stats
    /\ inflight' = Append(RemoveAt(inflight, i), NewCycle)
    /\ event' = Report("done", i, inflight[i], r, "catch")

\* the outer catch
Caught(i, r) ==
    /\ cache' = cache
    /\ stats' = IF Live(inflight[i]) THEN StatsOnFailure(stats) ELSE stats
    /\ inflight' = RemoveAt(inflight, i)
    /\ event' = Report("done", i, inflight[i], r, "catch")

\* the inner catch of the subgraph try: the call goes on to ENS_CLIENT
ToFallback(i, r) ==
    /\ inflight' = [inflight EXCEPT ![i].calls = Append(@, "ens")]
    /\ event' = Report("next", i, inflight'[i], r, "none")
    /\ UNCHANGED <<cache, stats>>

\* ---------------------------------------------------------------- actions
\* the effect: a first fetchMintStats() and the interval
Effect ==
    /\ phase = "rendered"
    /\ phase' = "active"
    /\ StartFetch
    /\ event' = NoEvent
    /\ UNCHANGED <<config, source, now, cache, closure>>

\* the interval callback, Interval after the last one
Tick ==
    /\ phase = "active"
    /\ starts < MaxStarts
    /\ now + Interval <= MaxNow
    /\ ~AxiosPending
    /\ now' = now + Interval
    /\ StartFetch
    /\ event' = NoEvent
    /\ UNCHANGED <<config, source, cache, phase, closure>>

\* the effect's cleanup: clearInterval
Unmount ==
    /\ phase = "active"
    /\ phase' = "unmounted"
    /\ inflight' = [i \in DOMAIN inflight |-> [inflight[i] EXCEPT !.orphan = TRUE]]
    /\ event' = NoEvent
    /\ UNCHANGED <<config, source, now, cache, stats, closure, starts>>

\* time goes by while no hook is mounted
Elapse(d) ==
    /\ phase = "unmounted"
    /\ ~AxiosPending
    /\ now + d <= MaxNow
    /\ now' = now + d
    /\ event' = NoEvent
    /\ UNCHANGED <<config, source, cache, phase, stats, closure, inflight, starts>>

\* a new instance of the hook renders: the useState initializer reads the cache
Remount ==
    /\ phase = "unmounted"
    /\ starts < MaxStarts
    /\ phase' = "rendered"
    /\ stats' = InitialStats(listedName, cache, now)
    /\ closure' = stats'
    /\ event' = InitEvent(cache)
    /\ UNCHANGED <<config, source, now, cache, inflight, starts>>

\* the first subgraph request settles
GraphReturns(i, r) ==
    /\ Last(inflight[i].calls) = "graph"
    /\ Answers("graph", r)
    /\ IF ~r.ok
       THEN ToFallback(i, r)
       ELSE LET tm == GraphCount(r, inflight[i].totalMinted)
                rm == GraphNames(r, inflight[i].recentMints)
            IN  IF NeedsNested(tm, rm)
                THEN /\ inflight' = [inflight EXCEPT ![i].calls = Append(@, "nested"),
                                                     ![i].totalMinted = tm,
                                                     ![i].recentMints = rm]
                     /\ event' = Report("next", i, inflight'[i], r, "none")
                     /\ UNCHANGED <<cache, stats>>
                ELSE Succeed(i, tm, rm, r)
    /\ UNCHANGED <<config, source, now, phase, closure, starts>>

\* the nested subgraph request settles
NestedReturns(i, r) ==
    /\ Last(inflight[i].calls) = "nested"
    /\ Answers("nested", r)
    /\ IF ~r.ok
       THEN ToFallback(i, r)
       ELSE Succeed(i, inflight[i].totalMinted, NestedNames(r, inflight[i].recentMints), r)
    /\ UNCHANGED <<config, source, now, phase, closure, starts>>

\* ENS_CLIENT.getSubnames settles
EnsReturns(i, r) ==
    /\ Last(inflight[i].calls) = "ens"
    /\ Answers("ens", r)
    /\ IF ~r.ok
       THEN Succeed(i, inflight[i].totalMinted, inflight[i].recentMints, r)
       ELSE Succeed(i, FallbackCount(r, inflight[i].totalMinted),
                       FallbackNames(r, inflight[i].recentMints), r)
    /\ UNCHANGED <<config, source, now, phase, closure, starts>>

\* the indexer request settles
IndexerReturns(i, r) ==
    /\ Last(inflight[i].calls) = "indexer"
    /\ Answers("indexer", r)
    /\ IF ~r.ok \/ r.isNull
       THEN Caught(i, r)
       ELSE Succeed(i, IndexerCount(r), IndexerNames(r), r)
    /\ UNCHANGED <<config, source, now, phase, closure, starts>>

Next ==
    \/ Effect
    \/ Tick
    \/ Unmount
    \/ \E d \in {TTL - 1, TTL} : Elapse(d)
    \/ Remount
    \/ \E i \in DOMAIN inflight : \E r \in GraphResponses : GraphReturns(i, r)
    \/ \E i \in DOMAIN inflight : \E r \in NestedResponses : NestedReturns(i, r)
    \/ \E i \in DOMAIN inflight : \E r \in EnsResponses : EnsReturns(i, r)
    \/ \E i \in DOMAIN inflight : \E r \in IndexerResponses : IndexerReturns(i, r)

Spec == Init /\ [][Next]_vars

\* ------------------------------------------- every request settles in time
\* some pending request settles: axios by its answer or its 5 s timeout,
\* ENS_CLIENT by resolving or rejecting
SourceReturns ==
    \E i \in DOMAIN inflight :
        \/ \E r \in GraphResponses : GraphReturns(i, r)
        \/ \E r \in NestedResponses : NestedReturns(i, r)
        \/ \E r \in EnsResponses : EnsReturns(i, r)
        \/ \E r \in IndexerResponses : IndexerReturns(i, r)

\* one hook from its first render to its cleanup
NextOneHook ==
    \/ Effect
    \/ Tick
    \/ Unmount
    \/ \E i \in DOMAIN inflight : \E r \in GraphResponses : GraphReturns(i, r)
    \/ \E i \in DOMAIN inflight : \E r \in NestedResponses : NestedReturns(i, r)
    \/ \E i \in DOMAIN inflight : \E r \in EnsResponses : EnsReturns(i, r)
    \/ \E i \in DOMAIN inflight : \E r \in IndexerResponses : IndexerReturns(i, r)

SpecOneHook == Init /\ [][NextOneHook]_vars

SpecFair == SpecOneHook /\ WF_vars(SourceReturns)

\* ------------------------------------- refreshes against unchanged sources
\* what an earlier session may have left in the cache
SeedEntries ==
    {Absent,
     JSONStringify([totalMinted |-> SampleCount, recentMints |-> MapName(Page(MaxShort)),
                    timestamp |-> 0])}

\* one mounted hook of a configured listing, with or without a seed
InitRepeat ==
    /\ listingChainId = 1
    /\ listedName = "alice.eth"
    /\ listingType \in {"L1", "L2"}
    /\ source \in FixedSources(listingType)
    /\ now = 0
    /\ cache \in SeedEntries
    /\ phase = "rendered"
    /\ stats = InitialStats(listedName, cache, now)
    /\ closure = stats
    /\ inflight = <<>>
    /\ starts = 0
    /\ event = InitEvent(cache)

\* a tick that finds the call before it ended
TickIdle == inflight = <<>> /\ Tick

NextRepeat ==
    \/ Effect
    \/ TickIdle
    \/ \E i \in DOMAIN inflight : \E r \in GraphResponses : GraphReturns(i, r)
    \/ \E i \in DOMAIN inflight : \E r \in NestedResponses : NestedReturns(i, r)
    \/ \E i \in DOMAIN inflight : \E r \in EnsResponses : EnsReturns(i, r)
    \/ \E i \in DOMAIN inflight : \E r \in IndexerResponses : IndexerReturns(i, r)

SpecRepeat == InitRepeat /\ [][NextRepeat]_vars

\* ---------------------------- one hook that may start from a cache seed
InitSeeded ==
    /\ listingChainId = 1
    /\ listedName = "alice.eth"
    /\ listingType \in {"L1", "L2"}
    /\ source = AnySource
    /\ now = 0
    /\ cache \in SeedEntries
    /\ phase = "rendered"
    /\ stats = InitialStats(listedName, cache, now)
    /\ closure = stats
    /\ inflight = <<>>
    /\ starts = 0
    /\ event = InitEvent(cache)

SpecSeeded == InitSeeded /\ [][NextOneHook]_vars

\* ------------------------------------ the initializer on any stored content
DropField(rec, f) == [g \in DOMAIN rec \ {f} |-> rec[g]]

\* entries as the hook writes them, at instant t and an hour before t
WrittenEntries(t) ==
    {JSONStringify([totalMinted |-> SampleCount, recentMints |-> names, timestamp |-> ts]) :
        names \in {<<>>, MapName(Page(MaxShort))}, ts \in {t - TTL, t - TTL + 1}}

\* what the item of the listing may hold when a hook renders: nothing, a
\* written entry, an entry that lacks a field, or a text that is no entry
StoredContents(t) ==
    {Absent, Unparsable, JSONNull}
    \cup WrittenEntries(t)
    \cup {DropField(e, f) : e \in WrittenEntries(t),
                            f \in {"totalMinted", "recentMints", "timestamp"}}

InitLoad ==
    /\ source = AnySource
    /\ listingChainId \in {0, 1}
    /\ listingType \in {"L1", "L2"}
    /\ listedName \in {"", "alice.eth"}
    /\ now = TTL
    /\ cache \in StoredContents(now)
    /\ phase = "unmounted"
    /\ stats = EmptyStats
    /\ closure = stats
    /\ inflight = <<>>
    /\ starts = 0
    /\ event = NoEvent

NextLoad == Remount

SpecLoad == InitLoad /\ [][NextLoad]_vars

\* ------------------------------------------------- vocabulary of the claims
Done == event.kind = "done"

Returned == event.kind \in {"next", "done"}

CountOf(calls, name) == Cardinality({k \in DOMAIN calls : calls[k] = name})

\* the names of the first n items
FirstNames(s, n) == [i \in 1..Min(Len(s), n) |-> s[i].name]

\* the non-null names of a list of items, in the order of the list
NamedOnly(s) == SelectSeq(FirstNames(s, Len(s)), LAMBDA n : n # NoName)

\* the call ended with every source it may use having failed: the indexer for
\* L2, the subgraph and then ENS_CLIENT for L1
IndexerFailed == Done /\ event.from = "indexer" /\ (~event.resp.ok \/ event.resp.isNull)

BothFailed == Done /\ event.from = "ens" /\ ~event.resp.ok

AggregationFailed == IndexerFailed \/ BothFailed

Snapshot(tm, rm, l, e) ==
    [totalMinted |-> tm, recentMints |-> rm, isLoading |-> l, error |-> e]

Entry(tm, rm, t) ==
    [present |-> TRUE, totalMinted |-> tm, recentMints |-> rm, timestamp |-> t]

\* ------------------------------------------------------------------- C1
\* C1: for L1, when the subgraph and ENS_CLIENT both fail in one call, the call
\* ends with error set, isLoading false and totalMinted / recentMints as they
\* were when the call started.
C1_BothFailKeepsSnapshot ==
    (BothFailed /\ listingType = "L1" /\ event.live)
        => /\ stats.error # NULL
           /\ stats.isLoading = FALSE
           /\ Data(stats) = event.cycle.seen

\* ------------------------------------------------------------------- C2
\* C2: isLoading is true only while the snapshot's totalMinted is 0.
C2_LoadingOnlyWithoutData == stats.isLoading => stats.totalMinted = 0

\* ------------------------------------------------------------------- C3
\* C3: for L2, when the indexer fails, the call ends with isLoading false and
\* error set, totalMinted / recentMints as they were when the call started,
\* the cache entry not written, and no request but the indexer's made.
C3_IndexerFailure ==
    IndexerFailed
        => /\ event.cycle.calls = <<"indexer">>
           /\ cache = event.cacheBefore
           /\ event.live => /\ stats.isLoading = FALSE
                            /\ stats.error # NULL
                            /\ Data(stats) = event.cycle.seen
           /\ ~event.live => stats = event.statsBefore

\* a snapshot seeded from the cache keeps its count through a failed call
C3_Witness ==
    /\ IndexerFailed
    /\ event.live
    /\ closure.totalMinted = SampleCount
    /\ stats.totalMinted = SampleCount
    /\ stats.error = ErrMsg

\* ------------------------------------------------------------------- C4
\* C4: for L1, a call whose subgraph request (the first or the nested one)
\* failed asks ENS_CLIENT exactly once, and when that returns a page the
\* snapshot is the names of the page (those within the limit) with totalMinted
\* the size of the page, also for a page of size 0, isLoading false, no error.
C4_FallbackAdopted ==
    (Done /\ event.from = "ens" /\ listingType = "L1")
        => /\ CountOf(event.cycle.calls, "ens") = 1
           /\ (event.resp.ok /\ ~event.resp.isNull /\ event.live)
                 => stats = Snapshot(Len(event.resp.subnames),
                                     FirstNames(event.resp.subnames, limit), FALSE, NULL)

\* ------------------------------------------------------------------- C5
\* the subgraph answered with a positive count and a list that has names
C5_Case ==
    /\ Returned
    /\ event.from = "graph"
    /\ event.resp.ok
    /\ event.resp.hasData
    /\ event.resp.subdomainCount > 0
    /\ event.resp.isArray
    /\ NamedOnly(event.resp.domains) # <<>>

\* C5: for L1, when the subgraph answers with count N > 0 and a non-empty name
\* list, the call ends there: no nested and no ENS_CLIENT request, the snapshot
\* is {N, the names in their order, isLoading false, error null} and the cache
\* entry is written with the same count and names and timestamp now.
C5_GraphResultVerbatim ==
    C5_Case
        => /\ Done
           /\ event.cycle.calls = <<"graph">>
           /\ cache = Entry(event.resp.subdomainCount, NamedOnly(event.resp.domains), now)
           /\ event.live => stats = Snapshot(event.resp.subdomainCount,
                                             NamedOnly(event.resp.domains), FALSE, NULL)

C5_Witness ==
    /\ C5_Case
    /\ event.live
    /\ stats.totalMinted = SampleCount
    /\ Len(stats.recentMints) > 1
    /\ cache.timestamp = now

\* ------------------------------------------------------------------- C6
\* C6: every cache entry has totalMinted > 0, and a call that fails (all its
\* sources failed) or yields totalMinted = 0 leaves an entry that was there
\* as it was, timestamp included.
C6_CacheOnlyOnSuccess ==
    /\ cache.present => cache.totalMinted > 0
    /\ (Done /\ event.cacheBefore.present
             /\ (AggregationFailed \/ event.cycle.totalMinted = 0))
          => cache = event.cacheBefore

\* ------------------------------------------------------------------- C7
\* C7: a call that ends with totalMinted > 0 stores its count and names with
\* timestamp now; the initializer seeds the snapshot with the stored count and
\* names, isLoading false and error null exactly when now - timestamp is less
\* than one hour, starts from {0, [], isLoading true, null} otherwise (also
\* when nothing is stored), and leaves the stored entry as it is.
C7_CacheRoundTrip ==
    /\ (Done /\ event.handler = "set" /\ event.cycle.totalMinted > 0)
          => cache = Entry(event.cycle.totalMinted, event.cycle.recentMints, now)
    /\ event.kind = "init"
          => /\ cache = event.cacheBefore
             /\ IF cache.present /\ now - cache.timestamp < 3600000
                THEN stats = Snapshot(cache.totalMinted, cache.recentMints, FALSE, NULL)
                ELSE stats = Snapshot(0, <<>>, TRUE, NULL)

\* an entry one millisecond short of an hour old seeds the snapshot
C7_Witness ==
    /\ event.kind = "init"
    /\ cache.present
    /\ now - cache.timestamp = 3599999
    /\ stats = Snapshot(cache.totalMinted, cache.recentMints, FALSE, NULL)

\* ------------------------------------------------------------------- C8
\* C8: a call that ends after the cleanup changes neither the snapshot nor the
\* cache.
C8_ResultDiscardedAfterCleanup ==
    (Done /\ ~event.live)
        => /\ stats = event.statsBefore
           /\ cache = event.cacheBefore

\* ------------------------------------------------------------------- C9
\* C9: when another call has ended since this one started, this call's ending
\* decides the snapshot's data: a call that ends well sets its own count and
\* names, a call that fails leaves the count and names the earlier call set.
C9_LastCompletedWins ==
    (Done /\ event.live /\ event.cycle.seen # Data(event.statsBefore))
        => IF AggregationFailed
           THEN Data(stats) = Data(event.statsBefore)
           ELSE Data(stats) = Data(event.cycle)

\* ------------------------------------------------------------------- C10
\* C10: recentMints of the snapshot and of the cache entry never hold more
\* names than the limit.
C10_RecentMintsWithinLimit ==
    /\ Len(stats.recentMints) <= limit
    /\ cache.present => Len(cache.recentMints) <= limit

\* ------------------------------------------------------------------- C11
\* the first subgraph request of an L1 call was answered
C11_GraphAnswered == Returned /\ event.from = "graph" /\ event.resp.ok

\* the count and the names the answer carries
C11_Count == IF event.resp.hasData THEN event.resp.subdomainCount ELSE 0

C11_Names ==
    IF event.resp.hasData /\ event.resp.isArray THEN NamedOnly(event.resp.domains) ELSE <<>>

\* the nested request was answered with a list that has items
C11_NestedAnswered ==
    /\ Returned
    /\ event.from = "nested"
    /\ event.resp.ok
    /\ event.resp.isArray
    /\ event.resp.subdomains # <<>>

\* C11: for L1, when the subgraph answers with a count N > 0 and no names, the
\* call makes the nested request, once, before it sets the snapshot or the
\* cache, and the names of a non-empty nested answer become recentMints (with
\* the count N); when the count is 0 or the first answer has names, no nested
\* request is made.
C11_CorrectiveQuery ==
    /\ C11_GraphAnswered
          => IF C11_Count > 0 /\ C11_Names = <<>>
             THEN /\ event.kind = "next"
                  /\ event.cycle.calls = <<"graph", "nested">>
                  /\ stats = event.statsBefore
                  /\ cache = event.cacheBefore
             ELSE /\ Done
                  /\ CountOf(event.cycle.calls, "nested") = 0
    /\ C11_NestedAnswered
          => /\ Done
             /\ event.cycle.calls = <<"graph", "nested">>
             /\ event.cycle.totalMinted > 0
             /\ event.cycle.recentMints = FirstNames(event.resp.subdomains, Len(event.resp.subdomains))
             /\ event.live => Data(stats) = Data(event.cycle)
    /\ \A i \in DOMAIN inflight : CountOf(inflight[i].calls, "nested") <= 1

\* the snapshot shows the names of the nested answer
C11_Witness ==
    /\ C11_NestedAnswered
    /\ event.live
    /\ stats.totalMinted = SampleCount
    /\ stats.recentMints = <<1>>
    /\ stats.error = NULL

\* ------------------------------------------------------------------- C12
\* a call of the mounted hook ended that started after an earlier call ended
C12_SecondEnded == Done /\ event.live /\ starts >= 2

\* C12: when the sources give the same answers (the same failures too) to
\* every request, a call that follows a call that ended leaves the snapshot
\* that call left: the same totalMinted, recentMints, isLoading and error,
\* whether the hook started from a cache seed or not.
C12_RefreshIdempotent == C12_SecondEnded => stats = event.cycle.shown

\* a seeded snapshot after the indexer failed twice
C12_Witness ==
    /\ C12_SecondEnded
    /\ source.fixed
    /\ event.handler = "catch"
    /\ stats = event.cycle.shown
    /\ stats = Snapshot(SampleCount, MapName(Page(MaxShort)), FALSE, ErrMsg)

\* ------------------------------------------------------------------- C13
\* the subgraph request came back with a body of the wrong shape: no data
\* object, or domains that is no array
C13_Malformed ==
    /\ Returned
    /\ event.from = "graph"
    /\ event.resp.ok
    /\ (~event.resp.hasData \/ ~event.resp.isArray)

\* C13: for L1, a subgraph answer of malformed shape counts as a failure of
\* the subgraph: the call goes on to ENS_CLIENT, and the answer is never taken
\* as a result {totalMinted 0, recentMints []} that replaces the snapshot.
C13_MalformedIsFailure ==
    C13_Malformed
        => /\ event.kind = "next"
           /\ Last(event.cycle.calls) = "ens"
           /\ stats = event.statsBefore

\* ------------------------------------------------------------------- C14
\* a call ended after its ENS_CLIENT request and set a count and names
C14_EndedOnFallback == Done /\ event.from = "ens" /\ event.handler = "set"

\* C14: the count and the names a call sets (in the snapshot and in the cache
\* entry) come from the answer of one source: a call that went on to
\* ENS_CLIENT sets the size and the names of the page ENS_CLIENT returned, and
\* never a count read from the subgraph with the names (or the empty list)
\* the ENS_CLIENT request left.
C14_NoMergingAcrossSources ==
    C14_EndedOnFallback
        => /\ IF event.resp.ok /\ ~event.resp.isNull
              THEN Data(event.cycle) = [totalMinted |-> Len(event.resp.subnames),
                                        recentMints |-> FirstNames(event.resp.subnames, limit)]
              ELSE event.cycle.totalMinted = 0
           /\ cache # event.cacheBefore
                 => /\ cache.totalMinted = Len(event.resp.subnames)
                    /\ cache.recentMints = FirstNames(event.resp.subnames, limit)

\* ------------------------------------------------------------------- C15
\* the requests a call may have made so far, in their order
C15_Orders ==
    IF listingType = "L2"
    THEN {<<"indexer">>}
    ELSE {<<"graph">>, <<"graph", "nested">>, <<"graph", "ens">>,
          <<"graph", "nested", "ens">>}

C15_Selection ==
    /\ \A i \in DOMAIN inflight : inflight[i].calls \in C15_Orders
    /\ Returned => event.cycle.calls \in C15_Orders
    /\ (event.kind = "next" /\ Last(event.cycle.calls) = "ens")
          => /\ event.from \in {"graph", "nested"}
             /\ ~event.resp.ok

\* the cache is written only by the step that ends a call
C15_WriteLast ==
    cache' # cache
        => /\ event'.kind = "done"
           /\ Len(inflight') = Len(inflight) - 1

\* C15: an L2 call asks the indexer only, and once; an L1 call never asks the
\* indexer, asks the subgraph first, and asks ENS_CLIENT at most once and only
\* after a subgraph request of the same call failed; the cache is written,
\* if at all, when all requests of the call have settled.
C15_AdapterOrder == [](C15_Selection) /\ [][C15_WriteLast]_vars

\* a call that went through all three L1 requests and then wrote the cache
C15_Witness ==
    /\ Done
    /\ event.cycle.calls = <<"graph", "nested", "ens">>
    /\ event.resp.ok
    /\ cache # event.cacheBefore
    /\ cache.timestamp = now

\* ------------------------------------------------------------------- C16
\* the stored content is an entry with its three fields
C16_WellFormed(stored) ==
    /\ stored.present
    /\ DOMAIN stored = {"present", "totalMinted", "recentMints", "timestamp"}

\* C16: whatever the item of the listing holds (a text that does not parse,
\* null, an entry without timestamp, a fresh entry without totalMinted or
\* without recentMints), the initializer returns {0, [], isLoading true, error
\* null} unless the content is a well-formed fresh entry, and a seeded
\* snapshot has the count and the list of that entry.
C16_LoadFailsSoftly ==
    event.kind = "init"
        => IF /\ listedName # ""
              /\ C16_WellFormed(event.cacheBefore)
              /\ now - event.cacheBefore.timestamp < 3600000
           THEN stats = Snapshot(event.cacheBefore.totalMinted,
                                 event.cacheBefore.recentMints, FALSE, NULL)
           ELSE stats = Snapshot(0, <<>>, TRUE, NULL)

\* ------------------------------------------------------------------- C17
\* a step that starts a call is the effect of a rendered hook, or a tick of
\* the interval of an active hook, 30 s after the start before it
C17_StartsOnSchedule ==
    (starts' # starts \/ Len(inflight') > Len(inflight))
        => /\ starts' = starts + 1
           /\ Len(inflight') <= Len(inflight) + 1
           /\ \/ phase = "rendered" /\ phase' = "active" /\ now' = now
              \/ phase = "active" /\ phase' = "active" /\ now' = now + 30000

\* a step that ends a call starts none
C17_NoRetry ==
    event'.kind = "done"
        => /\ starts' = starts
           /\ Len(inflight') = Len(inflight) - 1

C17_OncePerCall ==
    \A i \in DOMAIN inflight :
        \A k \in {"graph", "nested", "ens", "indexer"} : CountOf(inflight[i].calls, k) <= 1

\* C17: a call of fetchMintStats starts once when the effect runs and once at
\* every tick of the 30 s interval of an active hook, and at no other step: a
\* call that fails is not retried at once, a call makes each request at most
\* once, and no call starts after the cleanup.
C17_RefreshCadence ==
    /\ [][C17_StartsOnSchedule /\ C17_NoRetry]_vars
    /\ [](C17_OncePerCall)

\* the first tick has started the second call
C17_Witness ==
    /\ phase = "active"
    /\ starts = 2
    /\ now = 30000
    /\ Len(inflight) >= 1
    /\ event = NoEvent

\* ------------------------------------------------------------------- C18
\* no call of the mounted hook is suspended at an await
C18_NoneInFlight == \A i \in DOMAIN inflight : ~Live(inflight[i])

C18_Bounded ==
    /\ \A i \in DOMAIN inflight : Len(inflight[i].calls) <= 3
    /\ Returned => Len(event.cycle.calls) <= 3

C18_Settled ==
    (Configured /\ phase = "active" /\ C18_NoneInFlight) => ~stats.isLoading

C18_Unconfigured ==
    ~Configured
        => /\ inflight = <<>>
           /\ cache = Absent
           /\ stats = EmptyStats

\* C18: with listingChainId and listedName set and every request settling, a
\* call makes at most three requests and ends, and once no call of the active
\* hook is pending isLoading is false; with listingChainId or listedName
\* missing no request is made, the cache is not written and the snapshot
\* stays as it was initialized.
C18_CallsEnd ==
    /\ [](C18_Bounded /\ C18_Settled /\ C18_Unconfigured)
    /\ (inflight # <<>>) ~> (inflight = <<>>)

\* a call that made its three requests has ended and none is left
C18_Witness ==
    /\ Done
    /\ Len(event.cycle.calls) = 3
    /\ phase = "active"
    /\ inflight = <<>>
    /\ ~stats.isLoading

\* ------------------------------------------------------------------- C19
\* the cache entry holds the count and the names the snapshot shows
C19_Agree ==
    /\ cache.present
    /\ cache.totalMinted = stats.totalMinted
    /\ cache.recentMints = stats.recentMints

\* a step of the mounted hook: one that writes the cache sets the snapshot to
\* what it wrote; one that ends a call through setStats with a count above 0
\* leaves entry and snapshot equal; any other step leaves them equal if they
\* were
C19_Step ==
    phase' = "active"
        => /\ cache' # cache => (event'.kind = "done" /\ C19_Agree')
           /\ IF event'.kind = "done" /\ event'.handler = "set"
              THEN event'.cycle.totalMinted > 0 => C19_Agree'
              ELSE C19_Agree => C19_Agree'

C20_EndedWell == Done /\ event.handler = "set" /\ event.live

C20_SetsResult ==
    C20_EndedWell
        => stats = Snapshot(event.cycle.totalMinted, event.cycle.recentMints, FALSE, NULL)

\* in a hook that rendered with totalMinted > 0, an error that is shown stays
\* until a call ends through setStats
C20_ErrorStays ==
    (closure.totalMinted > 0 /\ stats.error # NULL /\ phase' # "rendered" /\ ~C20_EndedWell')
        => stats'.error # NULL

\* C20: a call that ends without reaching the catch sets the snapshot to its
\* count and names with isLoading false and error null, which clears the error
\* of an earlier failed call; and when the hook rendered with a snapshot whose
\* totalMinted > 0, the error of a failed call stays set until a call ends
\* that way.
C20_ErrorLifetime == [](C20_SetsResult) /\ [][C20_ErrorStays]_vars

\* in a seeded hook, the error of a failed call was shown until this call
\* ended well
C20_Witness ==
    /\ C20_EndedWell
    /\ closure.totalMinted > 0
    /\ event.statsBefore.error = ErrMsg
    /\ stats.error = NULL

====
